---------------------------- MODULE Spec2Model ----------------------------
(***************************************************************************)
(* A model of dlt's FileStorage (dlt/common/storages/file_storage.py): a   *)
(* root-confined local file store with an atomic save, path resolution     *)
(* between absolute and root-relative forms, and file/folder lifecycle     *)
(* operations.                                                             *)
(*                                                                         *)
(* Path strings are sequences of one-character strings, so that the        *)
(* character-wise os.path.commonprefix and the component-wise              *)
(* os.path.relpath are both computed as posixpath computes them.  The      *)
(* filesystem is a POSIX filesystem without symbolic links: a set of       *)
(* directories and a map from file locations to contents, where a location *)
(* is the sequence of names leading to an entry from "/".                  *)
(***************************************************************************)
EXTENDS Naturals, Sequences, FiniteSets, TLC

(***************************************************************************)
(* Bounds of the model.                                                    *)
(***************************************************************************)
\* longest path string given to the pure path functions
MaxPathLen == 5
\* number of concurrent save_atomic calls
NWriters == 2
\* number of chunks a payload is written in
DataLen == 2
\* longest sequence of calls of the single caller
MaxOps == 2
\* number of tasks of a runnable
NTasks == 2
\* number of worker processes of a pool
NWorkers == 2

(***************************************************************************)
(* posixpath: strings.                                                     *)
(***************************************************************************)
Sep == "/"
Chars == {"/", ".", "r", "a"}

\* str.startswith
StartsWith(s, pre) == Len(s) >= Len(pre) /\ SubSeq(s, 1, Len(pre)) = pre

\* str.endswith
EndsWith(s, suf) ==
    Len(s) >= Len(suf) /\ SubSeq(s, Len(s) - Len(suf) + 1, Len(s)) = suf

HasSep(s) == \E i \in 1..Len(s) : s[i] = Sep

FirstSep(s) ==
    CHOOSE i \in 1..Len(s) : s[i] = Sep /\ \A j \in 1..(i - 1) : s[j] # Sep

\* str.split("/"): the segments between separators, empty ones included
RECURSIVE split(_)
split(s) ==
    IF ~HasSep(s) THEN <<s>>
    ELSE <<SubSeq(s, 1, FirstSep(s) - 1)>>
            \o split(SubSeq(s, FirstSep(s) + 1, Len(s)))

\* "/".join(list)
RECURSIVE sep_join(_)
sep_join(l) ==
    IF l = <<>> THEN <<>>
    ELSE IF Len(l) = 1 THEN l[1]
    ELSE l[1] \o <<Sep>> \o sep_join(Tail(l))

\* [x for x in s.split(sep) if x]
components(s) == SelectSeq(split(s), LAMBDA x : x # <<>>)

Dot == <<".">>
DotDot == <<".", ".">>

\* os.path.isabs
isabs(p) == StartsWith(p, <<Sep>>)

\* os.path.join(a, b)
join(a, b) ==
    IF isabs(b) THEN b
    ELSE IF a = <<>> \/ EndsWith(a, <<Sep>>) THEN a \o b
    ELSE a \o <<Sep>> \o b

\* the loop of posixpath.normpath over the split components
RECURSIVE norm_comps(_, _, _)
norm_comps(comps, acc, rooted) ==
    IF comps = <<>> THEN acc
    ELSE LET c == Head(comps)
             rest == Tail(comps)
         IN  IF c = <<>> \/ c = Dot THEN norm_comps(rest, acc, rooted)
             ELSE IF c # DotDot
                     \/ (~rooted /\ acc = <<>>)
                     \/ (acc # <<>> /\ acc[Len(acc)] = DotDot)
                  THEN norm_comps(rest, Append(acc, c), rooted)
             ELSE IF acc # <<>>
                  THEN norm_comps(rest, SubSeq(acc, 1, Len(acc) - 1), rooted)
             ELSE norm_comps(rest, acc, rooted)

\* path or dot
or_dot(path) == IF path = <<>> THEN Dot ELSE path

\* posixpath.normpath: exactly two leading slashes are kept
normpath(p) ==
    IF p = <<>> THEN Dot
    ELSE LET slashes == IF ~isabs(p) THEN <<>>
                        ELSE IF StartsWith(p, <<Sep, Sep>>)
                                /\ ~StartsWith(p, <<Sep, Sep, Sep>>)
                             THEN <<Sep, Sep>>
                        ELSE <<Sep>>
             body == sep_join(norm_comps(split(p), <<>>, isabs(p)))
         IN  or_dot(slashes \o body)

\* posixpath.abspath, given the process's working directory
abspath(cwd, p) == normpath(IF isabs(p) THEN p ELSE join(cwd, p))

\* posixpath._joinrealpath on a filesystem without symbolic links: the path
\* is rebuilt from "/" component by component, so no double slash survives
joinrealpath(a) == IF StartsWith(a, <<Sep, Sep>>) THEN Tail(a) ELSE a

\* posixpath.realpath
realpath(cwd, p) == joinrealpath(abspath(cwd, p))

\* length of the longest common prefix of two sequences
RECURSIVE common_len(_, _)
common_len(s, t) ==
    IF s = <<>> \/ t = <<>> \/ Head(s) # Head(t) THEN 0
    ELSE 1 + common_len(Tail(s), Tail(t))

\* os.path.commonprefix([s, t]): element-wise, on characters for strings
commonprefix(s, t) == SubSeq(s, 1, common_len(s, t))

ValueError == "ValueError"

Ok(v) == [ok |-> TRUE, val |-> v]
Raise(e) == [ok |-> FALSE, val |-> e]

\* [pardir] * (len(start_list) - i) + path_list[i:]
rel_list(start_list, path_list, i) ==
    [k \in 1..(Len(start_list) - i) |-> DotDot]
        \o SubSeq(path_list, i + 1, Len(path_list))

\* curdir if rel_list is empty, else join(*rel_list)
rel_joined(l) == IF l = <<>> THEN Ok(Dot) ELSE Ok(sep_join(l))

\* the relative path from the components of start to those of path
rel_between(start_list, path_list) ==
    rel_joined(rel_list(start_list, path_list,
                        common_len(start_list, path_list)))

\* posixpath.relpath(path, start): ValueError on the empty path
relpath(cwd, path, start) ==
    IF path = <<>> THEN Raise(ValueError)
    ELSE rel_between(components(abspath(cwd, start)),
                     components(abspath(cwd, path)))

(***************************************************************************)
(* FileStorage: path resolution.  `cwd` is the working directory of the    *)
(* process, which os.path.realpath and os.path.relpath read; `root` is     *)
(* self.storage_path.                                                      *)
(***************************************************************************)
\* FileStorage.__init__: the absolute root with a trailing separator
init_storage_path(cwd, arg) == join(realpath(cwd, arg), <<>>)

\* FileStorage.in_storage
in_storage(cwd, root, path) ==
    LET file == realpath(cwd, path)
    IN  commonprefix(file, root) = root

\* FileStorage.to_relative_path
to_relative_path(cwd, root, path) ==
    IF ~in_storage(cwd, root, path) THEN Raise(ValueError)
    ELSE relpath(cwd, path, root)

\* make_full_path without the os.path.isabs check of line 137
make_full_path_unchecked(cwd, root, path) ==
    LET rel == to_relative_path(cwd, root, path)
    IN  IF rel.ok THEN Ok(join(root, rel.val)) ELSE Ok(join(root, path))

\* FileStorage.make_full_path
make_full_path(cwd, root, path) ==
    LET rel == to_relative_path(cwd, root, path)
    IN  IF rel.ok THEN Ok(join(root, rel.val))
        ELSE IF isabs(path) THEN Raise(ValueError)
        ELSE Ok(join(root, path))

(***************************************************************************)
(* The filesystem: fs.dirs is the set of directory locations, fs.files     *)
(* maps file locations to contents.  A location is the sequence of names   *)
(* from "/"; the location of "/" is <<>>.                                  *)
(***************************************************************************)
ENOENT == "FileNotFoundError"
ENOTDIR == "NotADirectoryError"
EISDIR == "IsADirectoryError"
ENOTEMPTY == "OSError(ENOTEMPTY)"
EINVAL == "OSError(EINVAL)"
EBUSY == "OSError(EBUSY)"
EEXIST == "FileExistsError"
NoError == "none"

kind(fs, loc) ==
    IF loc \in fs.dirs THEN "dir"
    ELSE IF loc \in DOMAIN fs.files THEN "file"
    ELSE "none"

parent(loc) == IF loc = <<>> THEN <<>> ELSE SubSeq(loc, 1, Len(loc) - 1)

\* loc is strictly below dir
Below(loc, dir) == Len(loc) > Len(dir) /\ SubSeq(loc, 1, Len(dir)) = dir

\* the entries of a directory
children(fs, dir) ==
    {l \in fs.dirs \cup DOMAIN fs.files : Len(l) = Len(dir) + 1 /\ Below(l, dir)}

Found(loc) == [err |-> NoError, loc |-> loc]
Failed(e) == [err |-> e, loc |-> <<>>]

\* the kernel's walk along the components of a path: every component is
\* looked up in a directory that must exist
RECURSIVE walk(_, _, _)
walk(fs, loc, comps) ==
    IF comps = <<>> THEN Found(loc)
    ELSE IF kind(fs, loc) = "none" THEN Failed(ENOENT)
    ELSE IF kind(fs, loc) = "file" THEN Failed(ENOTDIR)
    ELSE IF Head(comps) = Dot THEN walk(fs, loc, Tail(comps))
    ELSE IF Head(comps) = DotDot THEN walk(fs, parent(loc), Tail(comps))
    ELSE walk(fs, Append(loc, Head(comps)), Tail(comps))

\* path resolution of an absolute path (every path the store hands to the
\* operating system is absolute): the location it names, which may not exist
lookup(fs, p) ==
    IF p = <<>> THEN Failed(ENOENT)
    ELSE walk(fs, <<>>,
              components(p) \o (IF EndsWith(p, <<Sep>>) THEN <<Dot>> ELSE <<>>))

\* os.path.isfile
isfile(fs, p) ==
    lookup(fs, p).err = NoError /\ kind(fs, lookup(fs, p).loc) = "file"

\* os.path.isdir
isdir(fs, p) ==
    lookup(fs, p).err = NoError /\ kind(fs, lookup(fs, p).loc) = "dir"

Done(fs) == [err |-> NoError, fs |-> fs]
Errno(e, fs) == [err |-> e, fs |-> fs]

without(f, loc) == [l \in DOMAIN f \ {loc} |-> f[l]]

\* os.remove
os_remove(fs, p) ==
    LET r == lookup(fs, p)
    IN  IF r.err # NoError THEN Errno(r.err, fs)
        ELSE IF kind(fs, r.loc) = "none" THEN Errno(ENOENT, fs)
        ELSE IF kind(fs, r.loc) = "dir" THEN Errno(EISDIR, fs)
        ELSE Done([fs EXCEPT !.files = without(@, r.loc)])

\* os.rmdir
os_rmdir(fs, p) ==
    LET r == lookup(fs, p)
    IN  IF r.err # NoError THEN Errno(r.err, fs)
        ELSE IF kind(fs, r.loc) = "none" THEN Errno(ENOENT, fs)
        ELSE IF kind(fs, r.loc) = "file" THEN Errno(ENOTDIR, fs)
        ELSE IF components(p) # <<>>
                /\ components(p)[Len(components(p))] = Dot
             THEN Errno(EINVAL, fs)
        ELSE IF children(fs, r.loc) # {} THEN Errno(ENOTEMPTY, fs)
        ELSE IF r.loc = <<>> THEN Errno(EBUSY, fs)
        ELSE Done([fs EXCEPT !.dirs = @ \ {r.loc}])

\* an rmtree that removes the directory without emptying it first
shutil_rmtree_shallow(fs, p) == os_rmdir(fs, p)

\* shutil.rmtree, called on a path that os.path.isdir accepted
shutil_rmtree(fs, p) ==
    LET r == lookup(fs, p)
    IN  IF r.err # NoError THEN Errno(r.err, fs)
        ELSE IF kind(fs, r.loc) = "none" THEN Errno(ENOENT, fs)
        ELSE IF kind(fs, r.loc) = "file" THEN Errno(ENOTDIR, fs)
        ELSE LET emptied == [dirs |-> {l \in fs.dirs : ~Below(l, r.loc)},
                             files |-> [l \in {m \in DOMAIN fs.files :
                                                  ~Below(m, r.loc)}
                                           |-> fs.files[l]]]
             IN  \* the tree is emptied, then the directory itself is removed
                 IF r.loc = <<>> THEN Errno(EBUSY, emptied)
                 ELSE IF components(p)[Len(components(p))] = Dot
                      THEN Errno(EINVAL, emptied)
                 ELSE Done([emptied EXCEPT !.dirs = @ \ {r.loc}])

\* a location moved with the tree it lies in
moved(l, from, to) == to \o SubSeq(l, Len(from) + 1, Len(l))

\* the parent directory and the last name of a path, as rename(2) resolves
\* them: form is "root" for "/", "dots" for a last component "." or ".."
resolve_parent(fs, p) ==
    LET comps == components(p)
        up == IF comps = <<>> THEN Found(<<>>)
              ELSE walk(fs, <<>>, SubSeq(comps, 1, Len(comps) - 1))
        form == IF comps = <<>> THEN "root"
                ELSE IF comps[Len(comps)] \in {Dot, DotDot} THEN "dots"
                ELSE "name"
        e == IF p = <<>> THEN ENOENT
             ELSE IF up.err # NoError THEN up.err
             ELSE IF kind(fs, up.loc) = "none" THEN ENOENT
             ELSE IF kind(fs, up.loc) = "file" THEN ENOTDIR
             ELSE NoError
    IN  [err |-> e,
         form |-> form,
         loc |-> IF e = NoError /\ form = "name"
                 THEN Append(up.loc, comps[Len(comps)]) ELSE <<>>,
         slash |-> EndsWith(p, <<Sep>>)]

\* rename(2) once both paths are resolved to s and d: one atomic step that
\* moves s onto d, with the checks in the kernel's order
rename_resolved(fs, s, d) ==
    LET sk == kind(fs, s.loc)
        dk == kind(fs, d.loc)
        in(l) == l = s.loc \/ Below(l, s.loc)
        keptd == {l \in fs.dirs : ~in(l) /\ l # d.loc}
        keptf == {l \in DOMAIN fs.files : ~in(l) /\ l # d.loc}
        movd == {l \in fs.dirs : in(l)}
        movf == {l \in DOMAIN fs.files : in(l)}
    IN  IF s.err # NoError THEN Errno(s.err, fs)
        ELSE IF d.err # NoError THEN Errno(d.err, fs)
        ELSE IF s.form # "name" \/ d.form # "name" THEN Errno(EBUSY, fs)
        ELSE IF sk = "none" THEN Errno(ENOENT, fs)
        ELSE IF sk = "file" /\ (s.slash \/ d.slash) THEN Errno(ENOTDIR, fs)
        ELSE IF Below(d.loc, s.loc) THEN Errno(EINVAL, fs)
        ELSE IF Below(s.loc, d.loc) THEN Errno(ENOTEMPTY, fs)
        ELSE IF s.loc = d.loc THEN Done(fs)
        ELSE IF sk = "dir" /\ dk = "file" THEN Errno(ENOTDIR, fs)
        ELSE IF sk = "file" /\ dk = "dir" THEN Errno(EISDIR, fs)
        ELSE IF dk = "dir" /\ children(fs, d.loc) # {}
             THEN Errno(ENOTEMPTY, fs)
        ELSE Done([dirs |-> keptd \cup {moved(l, s.loc, d.loc) : l \in movd},
                   files |->
                     [l \in keptf \cup {moved(m, s.loc, d.loc) : m \in movf}
                        |-> IF l \in keptf THEN fs.files[l]
                            ELSE fs.files[CHOOSE m \in movf :
                                            moved(m, s.loc, d.loc) = l]]])

\* rename(2): both paths are resolved, then the move is made
rename(fs, src, dst) ==
    rename_resolved(fs, resolve_parent(fs, src), resolve_parent(fs, dst))

\* a replace that copies: the source stays where it was
os_replace_copying(fs, src, dst) ==
    LET r == rename(fs, src, dst)
        from == resolve_parent(fs, src).loc
    IN  IF r.err # NoError \/ kind(fs, from) # "file" THEN r
        ELSE [r EXCEPT !.fs.files =
                [l \in DOMAIN @ \cup {from} |->
                    IF l = from THEN fs.files[from] ELSE @[l]]]

\* os.replace: rename(2) on POSIX
os_replace(fs, src, dst) == rename(fs, src, dst)

\* os.rename
os_rename(fs, src, dst) == rename(fs, src, dst)

(***************************************************************************)
(* The state.                                                              *)
(***************************************************************************)
VARIABLES
    cwd,        \* working directory of the process (os.getcwd())
    root,       \* FileStorage.storage_path
    fs,         \* the filesystem
    pc,         \* pc[w]: where save_atomic call w stands
    wrel,       \* wrel[w]: its relative_path argument
    tmp,        \* tmp[w]: its tmp_path
    ret,        \* ret[w]: what it returned or raised
    replaced,   \* history: the calls whose os.replace succeeded, in order
    rd,         \* what the last load observed
    op,         \* the last call of the single caller: name, arguments, outcome
    nops,       \* number of calls the single caller made
    arg,        \* the path given to the path functions
    RUNNING,    \* Runnable.RUNNING of the parent process: id(r) -> uniq_id of r
    pools,      \* pools[p] of a started pool: its workers' RUNNING, and closed or not
    events,     \* history: the runnables created and pools started, in order
    run,        \* the r._run(p) in progress
    returned    \* history: the calls of _run that ended, with their outcome

\* the state of the runnables and pools
pool_vars == <<RUNNING, pools, events, run, returned>>

\* the state of the store and its callers
store_vars == <<cwd, root, fs, pc, wrel, tmp, ret, replaced, rd, op, arg>>

vars == <<cwd, root, fs, pc, wrel, tmp, ret, replaced, rd, op, nops, arg,
          RUNNING, pools, events, run, returned>>

\* no runnable is created and no pool is started
NoRunnables ==
    /\ RUNNING = <<>>
    /\ pools = <<>>
    /\ events = <<>>
    /\ run = <<>>
    /\ returned = <<>>

Writers == 1..NWriters

\* a payload is written in DataLen chunks; payload d is told from the others
\* by every one of its chunks
Payload(d) == [i \in 1..DataLen |-> d]
Old == Payload(0)

N_r == <<"r">>
N_d == <<"d">>
N_f == <<"f">>
N_g == <<"g">>
N_e == <<"e">>
N_o == <<"o">>

\* the filesystem the store is opened on: the root /r with a file f and a
\* folder d holding a file g; outside the root, a file /o and a folder /e
InitFs ==
    [dirs |-> {<<>>, <<N_r>>, <<N_r, N_d>>, <<N_e>>},
     files |-> [l \in {<<N_r, N_f>>, <<N_r, N_d, N_g>>, <<N_o>>} |-> Old]]

Cwds == {<<"/">>, <<"/", "r">>, <<"/", "r", "/", "d">>, <<"/", "e">>}

\* the names tempfile.NamedTemporaryFile draws from: no caller's path spells
\* one of them
TmpName(i) == <<"t", ToString(i)>>
TmpIds == 1..(NWriters + MaxOps)
TmpNames == {TmpName(i) : i \in TmpIds}

None == [ok |-> FALSE, val |-> "none"]
WriteError == "OSError(write)"

\* the location rename(2) or open(2) finds for an absolute path, <<"?">> when
\* the path does not resolve
loc_of(f, p) ==
    IF lookup(f, p).err = NoError THEN lookup(f, p).loc ELSE <<<<"?">>>>

(***************************************************************************)
(* save_atomic, step by step: every system call is one step, so that       *)
(* concurrent calls and readers interleave with it as threads do.          *)
(***************************************************************************)
\* relative_path arguments: an existing file, a new file, a path whose folder
\* is missing, an absolute path outside the root
SaveArgs == {<<"f">>, <<"n">>, <<"m", "/", "n">>}

\* tempfile.NamedTemporaryFile(dir=storage_path).name
tmp_path_of(storage_path, name) == join(storage_path, name)

\* the names NamedTemporaryFile may take: it opens with O_EXCL and draws
\* again when the name exists
fresh_names(f, storage_path) ==
    LET dir == lookup(f, storage_path)
    IN  IF dir.err # NoError THEN {}
        ELSE {n \in TmpNames : kind(f, Append(dir.loc, n)) = "none"}

\* one fixed name instead of a draw
drawn_names_fixed(f, storage_path) == {TmpName(1)}

\* the name it takes.  The draw is random and nothing reads the name, so
\* behaviours differ only by a renaming of the temporary files: the first
\* free name stands for the draw
drawn_names(f, storage_path) ==
    LET free == fresh_names(f, storage_path)
    IN  {TmpName(i) : i \in {j \in TmpIds :
            /\ TmpName(j) \in free
            /\ \A k \in 1..(j - 1) : TmpName(k) \notin free}}

\* open(path, "w") of a file that does not exist
create(f, path) ==
    [f EXCEPT !.files = [l \in DOMAIN @ \cup {loc_of(f, path)} |->
                            IF l = loc_of(f, path) THEN <<>> ELSE @[l]]]

\* the next chunk of f.write(data) reaches the file
write_chunk(f, path, data) ==
    [f EXCEPT !.files[loc_of(f, path)] = Append(@, data[Len(@) + 1])]

\* the with block left as soon as anything is written
with_exit_early(content, data) == content # <<>>

\* the with block is left normally once all of data is in the closed file
with_exit(content, data) == content = data

\* dest_path = os.path.join(storage_path, relative_path)
dest_path_of(storage_path, relative_path) == join(storage_path, relative_path)

InFlight == {"opened", "written", "except"}

\* line 27-28: the temporary file is created in storage_path
SaveOpen(w) ==
    /\ pc[w] = "idle"
    /\ \E rel \in SaveArgs :
        /\ wrel' = [wrel EXCEPT ![w] = rel]
        /\ IF ~isdir(fs, root)
           THEN /\ pc' = [pc EXCEPT ![w] = "raised"]
                /\ ret' = [ret EXCEPT ![w] = Raise(ENOENT)]
                /\ UNCHANGED <<fs, tmp>>
           ELSE \E n \in drawn_names(fs, root) :
                /\ fs' = create(fs, tmp_path_of(root, n))
                /\ tmp' = [tmp EXCEPT ![w] = tmp_path_of(root, n)]
                /\ pc' = [pc EXCEPT ![w] = "opened"]
                /\ UNCHANGED ret
    /\ UNCHANGED <<cwd, root, replaced, rd, op, nops, arg, pool_vars>>

\* line 29: f.write(data), chunk by chunk, and the end of the with block
SaveWrite(w) ==
    /\ pc[w] = "opened"
    /\ Len(fs.files[loc_of(fs, tmp[w])]) < DataLen
    /\ fs' = write_chunk(fs, tmp[w], Payload(w))
    /\ pc' = [pc EXCEPT ![w] =
                IF with_exit(fs'.files[loc_of(fs, tmp[w])], Payload(w))
                THEN "written" ELSE "opened"]
    /\ UNCHANGED <<cwd, root, wrel, tmp, ret, replaced, rd, op, nops, arg, pool_vars>>

\* line 29: f.write(data) raises; the with block closes the file, which was
\* opened with delete=False, and the exception leaves save_atomic
SaveWriteFail(w) ==
    /\ pc[w] = "opened"
    /\ pc' = [pc EXCEPT ![w] = "raised"]
    /\ ret' = [ret EXCEPT ![w] = Raise(WriteError)]
    /\ UNCHANGED <<cwd, root, fs, wrel, tmp, replaced, rd, op, nops, arg, pool_vars>>

\* lines 31-34: os.replace(tmp_path, dest_path); return dest_path
SaveReplace(w) ==
    /\ pc[w] = "written"
    /\ LET dest_path == dest_path_of(root, wrel[w])
           r == os_replace(fs, tmp[w], dest_path)
       IN  IF r.err = NoError
           THEN /\ fs' = r.fs
                /\ pc' = [pc EXCEPT ![w] = "done"]
                /\ ret' = [ret EXCEPT ![w] = Ok(dest_path)]
                /\ replaced' = Append(replaced, w)
           ELSE /\ pc' = [pc EXCEPT ![w] = "except"]
                /\ ret' = [ret EXCEPT ![w] = Raise(r.err)]
                /\ UNCHANGED <<fs, replaced>>
    /\ UNCHANGED <<cwd, root, wrel, tmp, rd, op, nops, arg, pool_vars>>

\* lines 35-38: the except block removes tmp_path and raises again
SaveCleanup(w) ==
    /\ pc[w] = "except"
    /\ fs' = IF isfile(fs, tmp[w]) THEN os_remove(fs, tmp[w]).fs ELSE fs
    /\ pc' = [pc EXCEPT ![w] = "raised"]
    /\ UNCHANGED <<cwd, root, wrel, tmp, ret, replaced, rd, op, nops, arg, pool_vars>>

\* open(path, "r").read()
read_file(f, path) ==
    LET r == lookup(f, path)
    IN  IF r.err # NoError THEN Raise(r.err)
        ELSE IF kind(f, r.loc) = "none" THEN Raise(ENOENT)
        ELSE IF kind(f, r.loc) = "dir" THEN Raise(EISDIR)
        ELSE Ok(f.files[r.loc])

\* FileStorage.load, through open_file
load(c, storage_path, f, relative_path) ==
    LET full == make_full_path(c, storage_path, relative_path)
    IN  IF ~full.ok THEN full ELSE read_file(f, full.val)

LoadArgs == {<<"f">>, <<"n">>}

\* a file has been at the location of the path: from the start, or put there
\* by a save_atomic call that returned
had_file(path) ==
    \/ kind(InitFs, loc_of(InitFs, path)) = "file"
    \/ \E w \in Writers :
          pc[w] = "done" /\ loc_of(fs, ret[w].val) = loc_of(fs, path)

\* a reader thread loads a file while the calls are in progress
Load ==
    /\ \E rel \in LoadArgs :
         LET full == make_full_path(cwd, root, rel)
         IN  rd' = [path |-> rel,
                    res |-> load(cwd, root, fs, rel),
                    had |-> full.ok /\ had_file(full.val)]
    /\ \E w \in Writers : pc[w] \in InFlight
    /\ UNCHANGED <<cwd, root, fs, pc, wrel, tmp, ret, replaced, op, nops, arg, pool_vars>>

NoRead == [path |-> <<>>, res |-> None, had |-> FALSE]
NoOp ==
    [name |-> "none", args |-> <<>>, res |-> None, tmp |-> <<>>,
     repeats |-> FALSE]

InitSave ==
    /\ cwd = <<"/">>
    /\ root = init_storage_path(cwd, <<"/", "r">>)
    /\ fs = InitFs
    /\ pc = [w \in Writers |-> "idle"]
    /\ wrel = [w \in Writers |-> <<>>]
    /\ tmp = [w \in Writers |-> <<>>]
    /\ ret = [w \in Writers |-> None]
    /\ replaced = <<>>
    /\ rd = NoRead
    /\ op = NoOp
    /\ nops = 0
    /\ arg = <<>>
    /\ NoRunnables

NextSave ==
    \/ \E w \in Writers : SaveOpen(w)
    \/ \E w \in Writers : SaveWrite(w)
    \/ \E w \in Writers : SaveWriteFail(w)
    \/ \E w \in Writers : SaveReplace(w)
    \/ \E w \in Writers : SaveCleanup(w)
    \/ Load

\* concurrent save_atomic calls and a reader on one store
SpecSave == InitSave /\ [][NextSave]_vars

(***************************************************************************)
(* The store's operations as whole calls, for a single caller.             *)
(***************************************************************************)
Returned(f, v) == [fs |-> f, res |-> Ok(v), tmp |-> <<>>]
Raised(f, e) == [fs |-> f, res |-> Raise(e), tmp |-> <<>>]

\* f.write(data) up to the n-th chunk
RECURSIVE write_chunks(_, _, _, _)
write_chunks(f, path, data, n) ==
    IF n = 0 THEN f
    ELSE write_chunk(write_chunks(f, path, data, n - 1), path, data)

\* FileStorage.save_atomic as one call: the steps above in sequence, where
\* the write raises after nchunks chunks when nchunks < Len(data)
save_atomic(f, storage_path, relative_path, data, nchunks) ==
    IF ~isdir(f, storage_path) \/ drawn_names(f, storage_path) = {}
    THEN Raised(f, ENOENT)
    ELSE LET tmp_path == tmp_path_of(storage_path,
                            CHOOSE n \in drawn_names(f, storage_path) : TRUE)
             opened == create(f, tmp_path)
             wrote == write_chunks(opened, tmp_path, data, nchunks)
             dest_path == dest_path_of(storage_path, relative_path)
             r == os_replace(wrote, tmp_path, dest_path)
         IN  IF ~with_exit(wrote.files[loc_of(wrote, tmp_path)], data)
             THEN [fs |-> wrote, res |-> Raise(WriteError), tmp |-> tmp_path]
             ELSE IF r.err = NoError
             THEN [fs |-> r.fs, res |-> Ok(dest_path), tmp |-> tmp_path]
             ELSE [fs |-> IF isfile(wrote, tmp_path)
                          THEN os_remove(wrote, tmp_path).fs ELSE wrote,
                   res |-> Raise(r.err),
                   tmp |-> tmp_path]

\* FileStorage.save
save(storage_path, f, relative_path, data, nchunks) ==
    save_atomic(f, storage_path, relative_path, data, nchunks)

\* delete without the os.path.isfile check of line 47
delete_unguarded(c, storage_path, f, relative_path) ==
    LET file_path == make_full_path(c, storage_path, relative_path)
    IN  IF ~file_path.ok THEN Raised(f, file_path.val)
        ELSE LET r == os_remove(f, file_path.val)
             IN  IF r.err = NoError THEN Returned(r.fs, <<>>)
                 ELSE Raised(r.fs, r.err)

\* FileStorage.delete
delete(c, storage_path, f, relative_path) ==
    LET file_path == make_full_path(c, storage_path, relative_path)
    IN  IF ~file_path.ok THEN Raised(f, file_path.val)
        ELSE IF isfile(f, file_path.val)
        THEN LET r == os_remove(f, file_path.val)
             IN  IF r.err = NoError THEN Returned(r.fs, <<>>)
                 ELSE Raised(r.fs, r.err)
        ELSE Raised(f, ENOENT)

\* delete_folder without the os.path.isdir check of line 54
delete_folder_unguarded(c, storage_path, f, relative_path, recursively) ==
    LET folder_path == make_full_path(c, storage_path, relative_path)
    IN  IF ~folder_path.ok THEN Raised(f, folder_path.val)
        ELSE LET r == IF recursively THEN shutil_rmtree(f, folder_path.val)
                      ELSE os_rmdir(f, folder_path.val)
             IN  IF r.err = NoError THEN Returned(r.fs, <<>>)
                 ELSE Raised(r.fs, r.err)

\* FileStorage.delete_folder
delete_folder(c, storage_path, f, relative_path, recursively) ==
    LET folder_path == make_full_path(c, storage_path, relative_path)
    IN  IF ~folder_path.ok THEN Raised(f, folder_path.val)
        ELSE IF isdir(f, folder_path.val)
        THEN LET r == IF recursively THEN shutil_rmtree(f, folder_path.val)
                      ELSE os_rmdir(f, folder_path.val)
             IN  IF r.err = NoError THEN Returned(r.fs, <<>>)
                 ELSE Raised(r.fs, r.err)
        ELSE Raised(f, ENOTDIR)

\* FileStorage.atomic_rename
atomic_rename(c, storage_path, f, from_path, to_path) ==
    LET from == make_full_path(c, storage_path, from_path)
        to == make_full_path(c, storage_path, to_path)
    IN  IF ~from.ok THEN Raised(f, from.val)
        ELSE IF ~to.ok THEN Raised(f, to.val)
        ELSE LET r == os_rename(f, from.val, to.val)
             IN  IF r.err = NoError THEN Returned(r.fs, <<>>)
                 ELSE Raised(r.fs, r.err)

\* Python's None among strings
PyNone == <<"None">>
TypeError == "TypeError"

\* a + b on str: TypeError when an operand is None
str_add(a, b) ==
    IF a = PyNone \/ b = PyNone THEN Raise(TypeError) ELSE Ok(a \o b)

\* x or y on str: x unless it is empty
str_or(x, y) == IF x # <<>> THEN x ELSE y

\* line 67: mode = mode + file_type or self.file_type, where + binds tighter
\* than or
open_temp_mode(mode, file_type, self_file_type) ==
    LET sum == str_add(mode, file_type)
    IN  IF ~sum.ok THEN sum ELSE Ok(str_or(sum.val, self_file_type))

\* tempfile.NamedTemporaryFile(dir=storage_path, mode=mode, delete=del)
\* with the name drawn: the file is created and returned open
temp_file_named(f, tmp_path, mode, del) ==
    [fs |-> create(f, tmp_path),
     res |-> Ok([name |-> tmp_path, mode |-> mode, delete |-> del]),
     tmp |-> tmp_path]

\* tempfile.NamedTemporaryFile(dir=storage_path, mode=mode, delete=del)
named_temporary_file(f, storage_path, mode, del) ==
    IF ~isdir(f, storage_path) THEN Raised(f, ENOENT)
    ELSE IF drawn_names(f, storage_path) = {} THEN Raised(f, EEXIST)
    ELSE temp_file_named(f, tmp_path_of(storage_path,
                                CHOOSE n \in drawn_names(f, storage_path) : TRUE),
                         mode, del)

\* FileStorage.open_temp of a store whose file_type is self_file_type
open_temp(f, storage_path, self_file_type, del, mode, file_type) ==
    LET opened_mode == open_temp_mode(mode, file_type, self_file_type)
    IN  IF ~opened_mode.ok THEN Raised(f, opened_mode.val)
        ELSE named_temporary_file(f, storage_path, opened_mode.val, del)

\* p.rfind("/") + 1
after_last_sep(p) ==
    IF ~HasSep(p) THEN 0
    ELSE CHOOSE i \in 1..Len(p) :
            p[i] = Sep /\ \A j \in (i + 1)..Len(p) : p[j] # Sep

\* head.rstrip("/")
RECURSIVE rstrip_sep(_)
rstrip_sep(p) ==
    IF p # <<>> /\ p[Len(p)] = Sep THEN rstrip_sep(SubSeq(p, 1, Len(p) - 1))
    ELSE p

\* the head of posixpath.split: separators are stripped from its end
\* unless it is made of separators only
split_head(head) ==
    IF head # <<>> /\ components(head) # <<>> THEN rstrip_sep(head) ELSE head

\* posixpath.split, given i = p.rfind("/") + 1
split_at(p, i) ==
    [head |-> split_head(SubSeq(p, 1, i)), tail |-> SubSeq(p, i + 1, Len(p))]

\* posixpath.split
path_split(p) == split_at(p, after_last_sep(p))

\* os.path.exists
exists(f, p) == lookup(f, p).err = NoError /\ kind(f, lookup(f, p).loc) # "none"

\* mkdir(2), once the parent directory and the last name are resolved
mkdir_resolved(f, d) ==
    IF d.err # NoError THEN Errno(d.err, f)
    ELSE IF d.form # "name" THEN Errno(EEXIST, f)
    ELSE IF kind(f, d.loc) # "none" THEN Errno(EEXIST, f)
    ELSE Done([f EXCEPT !.dirs = @ \cup {d.loc}])

\* os.mkdir
os_mkdir(f, p) == mkdir_resolved(f, resolve_parent(f, p))

\* os.makedirs, the end: mkdir(name), where an OSError is passed over when
\* exist_ok is set and the path is a directory
mkdir_or_exists(f, name, exist_ok, r) ==
    IF r.err = NoError THEN r
    ELSE IF ~exist_ok \/ ~isdir(f, name) THEN r
    ELSE Done(f)

\* the end of os.makedirs that never passes over an existing directory
makedirs_leaf_strict(f, name, exist_ok) ==
    mkdir_or_exists(f, name, FALSE, os_mkdir(f, name))

makedirs_leaf(f, name, exist_ok) ==
    mkdir_or_exists(f, name, exist_ok, os_mkdir(f, name))

\* os.makedirs after the recursive call for the head, whose
\* FileExistsError is passed over: nothing more to do for a tail "."
makedirs_after_head(name, exist_ok, tail, up) ==
    IF up.err \notin {NoError, EEXIST} THEN up
    ELSE IF tail = Dot THEN Done(up.fs)
    ELSE makedirs_leaf(up.fs, name, exist_ok)

\* head, tail = path.split(name); if not tail: head, tail = path.split(head)
makedirs_split(ht) == IF ht.tail = <<>> THEN path_split(ht.head) ELSE ht

RECURSIVE os_makedirs(_, _, _)
\* os.makedirs, given head and tail
makedirs_from(f, name, exist_ok, ht) ==
    IF ht.head # <<>> /\ ht.tail # <<>> /\ ~exists(f, ht.head)
    THEN makedirs_after_head(name, exist_ok, ht.tail,
                             os_makedirs(f, ht.head, exist_ok))
    ELSE makedirs_leaf(f, name, exist_ok)

\* os.makedirs(name, exist_ok=exist_ok)
os_makedirs(f, name, exist_ok) ==
    makedirs_from(f, name, exist_ok, makedirs_split(path_split(name)))

\* the outcome of a filesystem call as the outcome of the method
outcome(r) ==
    IF r.err = NoError THEN Returned(r.fs, <<>>) ELSE Raised(r.fs, r.err)

\* os.makedirs on the path resolved
makedirs_full(f, full, exists_ok) ==
    IF ~full.ok THEN Raised(f, full.val)
    ELSE outcome(os_makedirs(f, full.val, exists_ok))

\* FileStorage.create_folder
create_folder(c, storage_path, f, relative_path, exists_ok) ==
    makedirs_full(f, make_full_path(c, storage_path, relative_path), exists_ok)

\* os.scandir: the entries of the directory the path names
os_scandir(f, p) ==
    LET r == lookup(f, p)
    IN  IF r.err # NoError THEN [err |-> r.err, entries |-> {}]
        ELSE IF kind(f, r.loc) = "none" THEN [err |-> ENOENT, entries |-> {}]
        ELSE IF kind(f, r.loc) = "file" THEN [err |-> ENOTDIR, entries |-> {}]
        ELSE [err |-> NoError, entries |-> children(f, r.loc)]

\* e.name of a directory entry
entry_name(e) == e[Len(e)]

\* the list comprehension over os.scandir(scan_path): the entries of one of
\* the kinds, by name or joined to relative_path.  The list is in the order
\* of enumeration, which nothing fixes: it is kept as the set of its items
listing(f, scan, relative_path, to_root, kinds) ==
    IF scan.err # NoError THEN Raised(f, scan.err)
    ELSE Returned(f, {IF to_root THEN join(relative_path, entry_name(e))
                      ELSE entry_name(e) :
                        e \in {x \in scan.entries : kind(f, x) \in kinds}})

\* the entries of the path's directory that pass the filter
list_folder(f, scan_path, relative_path, to_root, kinds) ==
    IF ~scan_path.ok THEN Raised(f, scan_path.val)
    ELSE listing(f, os_scandir(f, scan_path.val), relative_path, to_root,
                 kinds)

\* list_folder_files without the e.is_file() filter
list_folder_files_unfiltered(c, storage_path, f, relative_path, to_root) ==
    list_folder(f,
                make_full_path(c, storage_path, relative_path),
                relative_path, to_root, {"file", "dir"})

\* FileStorage.list_folder_files
list_folder_files(c, storage_path, f, relative_path, to_root) ==
    list_folder(f,
                make_full_path(c, storage_path, relative_path),
                relative_path, to_root, {"file"})

\* FileStorage.list_folder_dirs
list_folder_dirs(c, storage_path, f, relative_path, to_root) ==
    list_folder(f,
                make_full_path(c, storage_path, relative_path),
                relative_path, to_root, {"dir"})

\* path arguments of the calls: files and folders of the store, a new name,
\* a name in a missing folder, relative paths that climb out of the root,
\* absolute paths inside and outside the root
StoreArgs ==
    {<<"f">>, <<"d">>, <<"d", "/", "g">>, <<"n">>, <<"m", "/", "n">>,
     <<".", ".", "/", "o">>, <<".", ".", "/", "e">>,
     <<"/", "o">>, <<"/", "r", "/", "f">>}

SavePaths ==
    {<<"f">>, <<"d">>, <<"n">>, <<"m", "/", "n">>,
     <<".", ".", "/", "o">>, <<"/", "o">>}

\* folders to list: the root, a folder, a file, a missing name
ListArgs == {<<>>, <<"d">>, <<"f">>, <<"n">>}

\* folders to create: one that exists, a new one, a new one in a new one, a
\* name taken by a file
CreateArgs == {<<"d">>, <<"n">>, <<"m", "/", "n">>, <<"f">>}

\* file_type of the store, and file_type given to open_temp
FileTypes == {<<"t">>, <<"b">>}

RenameFrom == {<<"f">>, <<"d">>, <<".", ".", "/", "o">>, <<"/", "o">>}
RenameTo ==
    {<<"f">>, <<"n">>, <<"d", "/", "g">>, <<".", ".", "/", "e">>, <<"/", "o">>}

\* one call of a method by the caller: its outcome, and whether it repeats the
\* call before it, the same method with the same arguments
Call(name, args, r) ==
    /\ nops < MaxOps
    /\ nops' = nops + 1
    /\ fs' = r.fs
    /\ op' = [name |-> name, args |-> args, res |-> r.res, tmp |-> r.tmp,
              repeats |-> op.name = name /\ op.args = args]
    /\ UNCHANGED <<cwd, root, pc, wrel, tmp, ret, replaced, rd, arg, pool_vars>>

\* the payload of the n-th call, told from the payloads of the other calls
Save ==
    \E rel \in SavePaths, n \in 0..DataLen :
        Call("save", <<rel, Payload(nops + 1)>>,
             save(root, fs, rel, Payload(nops + 1), n))

Delete ==
    \E rel \in StoreArgs :
        Call("delete", <<rel>>, delete(cwd, root, fs, rel))

DeleteFolder ==
    \E rel \in StoreArgs, recursively \in BOOLEAN :
        Call("delete_folder", <<rel, recursively>>,
             delete_folder(cwd, root, fs, rel, recursively))

AtomicRename ==
    \E from \in RenameFrom, to \in RenameTo :
        Call("atomic_rename", <<from, to>>,
             atomic_rename(cwd, root, fs, from, to))

ListFolderFiles ==
    \E rel \in ListArgs, to_root \in BOOLEAN :
        Call("list_folder_files", <<rel, to_root>>,
             list_folder_files(cwd, root, fs, rel, to_root))

ListFolderDirs ==
    \E rel \in ListArgs, to_root \in BOOLEAN :
        Call("list_folder_dirs", <<rel, to_root>>,
             list_folder_dirs(cwd, root, fs, rel, to_root))

CreateFolder ==
    \E rel \in CreateArgs, exists_ok \in BOOLEAN :
        Call("create_folder", <<rel, exists_ok>>,
             create_folder(cwd, root, fs, rel, exists_ok))

\* open_temp on a store of either file type; mode is left at its default
OpenTemp ==
    \E del \in BOOLEAN, file_type \in FileTypes \cup {PyNone},
       self_file_type \in FileTypes :
        Call("open_temp", <<del, <<"w">>, file_type, self_file_type>>,
             open_temp(fs, root, self_file_type, del, <<"w">>, file_type))

Init ==
    /\ cwd \in {<<"/">>, <<"/", "r", "/", "d">>}
    /\ root = init_storage_path(cwd, <<"/", "r">>)
    /\ fs = InitFs
    /\ pc = [w \in Writers |-> "idle"]
    /\ wrel = [w \in Writers |-> <<>>]
    /\ tmp = [w \in Writers |-> <<>>]
    /\ ret = [w \in Writers |-> None]
    /\ replaced = <<>>
    /\ rd = NoRead
    /\ op = NoOp
    /\ nops = 0
    /\ arg = <<>>
    /\ NoRunnables

Next ==
    \/ Save
    \/ Delete
    \/ DeleteFolder
    \/ AtomicRename
    \/ ListFolderFiles
    \/ ListFolderDirs
    \/ CreateFolder
    \/ OpenTemp

\* one caller making calls on the store, one after the other
Spec == Init /\ [][Next]_vars

(***************************************************************************)
(* The path functions applied to one path.                                 *)
(***************************************************************************)
\* all strings of at most n characters
Paths(n) == UNION {[1..k -> Chars] : k \in 0..n}

\* resolve, relativize, resolve again
round_trip(c, storage_path, path) ==
    LET full == make_full_path(c, storage_path, path)
        rel == to_relative_path(c, storage_path, full.val)
    IN  IF ~full.ok THEN full
        ELSE IF ~rel.ok THEN rel
        ELSE make_full_path(c, storage_path, rel.val)

ValidationError == "ValidationError"
InvalidCharError == "InvalidCharError"

\* "." in name
has_dot(name) == \E i \in 1..Len(name) : name[i] = "."

\* pathvalidate.validate_filename(name, platform="Universal"): the rules of
\* the library that bear on the characters modelled: no empty name, no
\* reserved character, no dot at the end
validate_filename(name) ==
    IF name = <<>> THEN Raise(ValidationError)
    ELSE IF HasSep(name) THEN Raise(InvalidCharError)
    ELSE IF name[Len(name)] = "." THEN Raise(InvalidCharError)
    ELSE Ok(<<>>)

\* the name once the library has passed it
dot_checked(name, universal) ==
    IF ~universal.ok THEN universal
    ELSE IF has_dot(name) THEN Raise(InvalidCharError)
    ELSE Ok(<<>>)

\* validate_file_name_component without the check of lines 152-153
validate_file_name_component_undotted(name) == validate_filename(name)

\* FileStorage.validate_file_name_component
validate_file_name_component(name) ==
    dot_checked(name, validate_filename(name))

Apply(name, res) ==
    /\ op.name = "none"
    /\ op' = [name |-> name, args |-> <<arg>>, res |-> res, tmp |-> <<>>,
              repeats |-> FALSE]
    /\ UNCHANGED <<cwd, root, fs, pc, wrel, tmp, ret, replaced, rd, nops, arg, pool_vars>>

InStorage == Apply("in_storage", Ok(in_storage(cwd, root, arg)))

ToRelativePath == Apply("to_relative_path", to_relative_path(cwd, root, arg))

MakeFullPath == Apply("make_full_path", make_full_path(cwd, root, arg))

RoundTrip == Apply("round_trip", round_trip(cwd, root, arg))

ValidateFileNameComponent ==
    Apply("validate_file_name_component", validate_file_name_component(arg))

InitPath ==
    /\ cwd \in Cwds
    /\ root = init_storage_path(cwd, <<"/", "r">>)
    /\ arg \in Paths(MaxPathLen)
    /\ fs = InitFs
    /\ pc = [w \in Writers |-> "idle"]
    /\ wrel = [w \in Writers |-> <<>>]
    /\ tmp = [w \in Writers |-> <<>>]
    /\ ret = [w \in Writers |-> None]
    /\ replaced = <<>>
    /\ rd = NoRead
    /\ op = NoOp
    /\ nops = 0
    /\ NoRunnables

NextPath ==
    \/ InStorage
    \/ ToRelativePath
    \/ MakeFullPath
    \/ RoundTrip
    \/ ValidateFileNameComponent

\* the path functions of a store rooted at /r, on every short path
SpecPath == InitPath /\ [][NextPath]_vars

(***************************************************************************)
(* Runnables on process pools.  A runnable registers itself in RUNNING     *)
(* under its id when it is created; a pool forks its workers when it is    *)
(* started, each with the RUNNING of that moment; _run hands the tasks     *)
(* (id(r), i) to the workers, which look the id up in their own RUNNING.   *)
(***************************************************************************)
\* id(r) of the runnables
InstanceIds == {1, 2}

\* the pools
PoolIds == {1, 2}

\* uniq_id of a runnable, drawn when it is created
UniqIds == {"x", "y"}

\* the task numbers given to the workers: range(tasks)
Tasks == 0..(NTasks - 1)

\* pids of the workers of a pool
Workers == 1..NWorkers

KeyError == "KeyError"

NoTask == 0 - 1

\* F[i] = v on a dict
updated(F, i, v) == [j \in DOMAIN F \cup {i} |-> IF j = i THEN v ELSE F[j]]

\* workers threads of the parent: they read the RUNNING of the parent
worker_registry_shared(of_parent, forked) == of_parent

\* the RUNNING a worker process reads: its own, forked with the pool
worker_registry(of_parent, forked) == forked

\* the worker on task i in process pid: RUNNING[rid], then (i, uniq_id, pid)
worker(R, rid, i, pid) ==
    IF rid \notin DOMAIN R THEN Raise(KeyError)
    ELSE Ok(<<i, R[rid], pid>>)

\* what starmap returns: the values in task order, or the error of the first
\* task that raised
starmap_result(results) ==
    LET failed == {i \in DOMAIN results : ~results[i].ok}
    IN  IF failed # {}
        THEN results[CHOOSE i \in failed : \A j \in failed : i <= j]
        ELSE Ok([k \in 1..NTasks |-> results[k - 1].val])

\* r = _TestRunnable(tasks)
NewRunnable ==
    \E i \in InstanceIds \ DOMAIN RUNNING, u \in UniqIds :
        /\ RUNNING' = updated(RUNNING, i, u)
        /\ events' = Append(events, <<"runnable", i>>)
        /\ UNCHANGED <<pools, run, returned, store_vars, nops>>

\* p = Pool(NWorkers): the workers are forked with the RUNNING of the parent
StartPool ==
    \E p \in PoolIds \ DOMAIN pools :
        /\ pools' = updated(pools, p, [closed |-> FALSE, RUNNING |-> RUNNING])
        /\ events' = Append(events, <<"pool", p>>)
        /\ UNCHANGED <<RUNNING, run, returned, store_vars, nops>>

\* r._run(p) is called: the tasks are in the queue of the pool
Run ==
    \E rid \in DOMAIN RUNNING, p \in DOMAIN pools :
        /\ run = <<>>
        /\ ~pools[p].closed
        /\ run' = [rid |-> rid, pool |-> p,
                   queue |-> [k \in 1..NTasks |-> k - 1],
                   busy |-> [w \in Workers |-> NoTask],
                   results |-> <<>>]
        /\ UNCHANGED <<RUNNING, pools, events, returned, store_vars, nops>>

\* a free worker takes the next task of the queue
WorkerTake ==
    \E w \in Workers :
        /\ run # <<>>
        /\ run.busy[w] = NoTask
        /\ run.queue # <<>>
        /\ run' = [run EXCEPT !.busy[w] = Head(run.queue),
                              !.queue = Tail(run.queue)]
        /\ UNCHANGED <<RUNNING, pools, events, returned, store_vars, nops>>

\* a worker ends its task, with a value or an error
WorkerDone ==
    \E w \in Workers :
        /\ run # <<>>
        /\ run.busy[w] # NoTask
        /\ run' = [run EXCEPT
                !.busy[w] = NoTask,
                !.results = updated(@, run.busy[w],
                    worker(worker_registry(RUNNING, pools[run.pool].RUNNING),
                           run.rid, run.busy[w], w))]
        /\ UNCHANGED <<RUNNING, pools, events, returned, store_vars, nops>>

\* rv = r._run(p) returns or raises; p.close()
Return ==
    /\ run # <<>>
    /\ DOMAIN run.results = Tasks
    /\ returned' = Append(returned, [rid |-> run.rid, pool |-> run.pool,
                                     rv |-> starmap_result(run.results)])
    /\ pools' = [pools EXCEPT ![run.pool].closed = TRUE]
    /\ run' = <<>>
    /\ UNCHANGED <<RUNNING, events, store_vars, nops>>

InitPool ==
    /\ cwd = <<"/">>
    /\ root = init_storage_path(cwd, <<"/", "r">>)
    /\ fs = InitFs
    /\ pc = [w \in Writers |-> "idle"]
    /\ wrel = [w \in Writers |-> <<>>]
    /\ tmp = [w \in Writers |-> <<>>]
    /\ ret = [w \in Writers |-> None]
    /\ replaced = <<>>
    /\ rd = NoRead
    /\ op = NoOp
    /\ nops = 0
    /\ arg = <<>>
    /\ NoRunnables

NextPool ==
    \/ NewRunnable
    \/ StartPool
    \/ Run
    \/ WorkerTake
    \/ WorkerDone
    \/ Return

SpecPool == InitPool /\ [][NextPool]_vars

(***************************************************************************)
(* Properties.                                                             *)
(***************************************************************************)
\* what lies outside the root of the store
outside(f) ==
    LET r == components(root)
        out(l) == ~(l = r \/ Below(l, r))
    IN  [dirs |-> {l \in f.dirs : out(l)},
         files |-> {<<l, f.files[l]>> : l \in {m \in DOMAIN f.files : out(m)}}]

\* the temporary files in the root
temps(f) == TmpNames \ fresh_names(f, root)

\* the step is a whole save call of the single caller
SaveStep == nops' = nops + 1 /\ op'.name = "save"

\* C1: when save_atomic returns, the file at relative_path under the root,
\* which is the path returned, holds exactly the data given, and the
\* temporary file of the call is no longer in the root.
C1_SavedFileHoldsData ==
    (op.name = "save" /\ op.res.ok) =>
        /\ read_file(fs, join(root, op.args[1])) = Ok(op.args[2])
        /\ read_file(fs, op.res.val) = Ok(op.args[2])
        /\ kind(fs, loc_of(fs, op.tmp)) = "none"

\* a second save has overwritten the file f of the store with its payload
C1_Witness ==
    /\ nops = 2
    /\ op.name = "save"
    /\ op.res = Ok(<<"/", "r", "/", "f">>)
    /\ op.args[1] = <<"f">>
    /\ fs.files[<<N_r, N_f>>] = Payload(2)
    /\ temps(fs) = {}

\* C4: when the write into the temporary file raises, the call raises, no
\* temporary file is left in the root and the destination is as it was.
C4_WriteFailureLeavesNoTemp ==
    [][(SaveStep /\ op'.res = Raise(WriteError)) =>
          /\ temps(fs') \subseteq temps(fs)
          /\ read_file(fs', join(root, op'.args[1]))
                = read_file(fs, join(root, op'.args[1]))]_vars

\* C5: when os.replace raises, the temporary file is removed, the call
\* raises and the destination is as it was; and however a save_atomic call
\* ends, its temporary file no longer exists.
C5_NoTempInAnyTerminalState ==
    [][SaveStep =>
          /\ (~op'.res.ok /\ op'.res.val # WriteError) =>
                read_file(fs', join(root, op'.args[1]))
                   = read_file(fs, join(root, op'.args[1]))
          /\ temps(fs') \subseteq temps(fs)]_vars

\* C6: whatever paths delete, delete_folder, save and atomic_rename are given,
\* nothing outside the root is removed, overwritten or renamed.
C6_NeverEscapesRoot == outside(fs) = outside(InitFs)

\* C8: save_atomic replaces and returns make_full_path(relative_path), and
\* given an absolute path outside the root it raises ValueError and writes
\* nothing outside the root.
C8_SavesAtResolvedPath ==
    [][SaveStep =>
          LET rel == op'.args[1]
              full == make_full_path(cwd, root, rel)
          IN  /\ op'.res.ok => (full.ok /\ op'.res.val = full.val)
              /\ (isabs(rel) /\ ~in_storage(cwd, root, rel)) =>
                    /\ op'.res = Raise(ValueError)
                    /\ outside(fs') = outside(fs)]_vars

\* a payload in full
Complete(content) == content \in {Payload(d) : d \in {0} \cup Writers}

SoloOk(rel) == save_atomic(InitFs, root, rel, Payload(1), DataLen).res.ok

\* the calls that have replaced the destination of rel, in order
Replacers(rel) == SelectSeq(replaced, LAMBDA w : wrel[w] = rel)

\* C3: of two concurrent save_atomic calls to one destination, each has a
\* temporary file of its own, neither fails where it would return if alone,
\* and the destination holds the whole payload of the call that replaced
\* it last.
C3_LastWriterWins ==
    \A w1 \in Writers : \A w2 \in Writers \ {w1} :
        (pc[w1] # "idle" /\ pc[w2] # "idle" /\ wrel[w1] = wrel[w2]) =>
            /\ (pc[w1] \in InFlight /\ pc[w2] \in InFlight)
                  => tmp[w1] # tmp[w2]
            /\ (pc[w1] \in {"except", "raised"} /\ SoloOk(wrel[w1]))
                  => ret[w1] = Raise(WriteError)
            /\ Replacers(wrel[w1]) # <<>> =>
                  read_file(fs, join(root, wrel[w1]))
                     = Ok(Payload(Replacers(wrel[w1])
                                     [Len(Replacers(wrel[w1]))]))

\* both calls to f have returned, call 2 replaced first and call 1 last, and
\* f holds the payload of call 1
C3_Witness ==
    /\ pc[1] = "done" /\ pc[2] = "done"
    /\ wrel[1] = <<"f">> /\ wrel[2] = <<"f">>
    /\ replaced = <<2, 1>>
    /\ fs.files[<<N_r, N_f>>] = Payload(1)

\* the path, made real, lies below the root
LiesUnder(c, storage_path, path) ==
    Below(components(realpath(c, path)), components(storage_path))

\* C7: make_full_path raises ValueError on every absolute path that does not
\* lie below the root.
C7_AbsoluteOutsideRaises ==
    (op.name = "make_full_path" /\ isabs(arg) /\ ~LiesUnder(cwd, root, arg))
        => op.res = Raise(ValueError)

\* make_full_path raised on /ra, which shares the characters of the root /r
C7_Witness ==
    /\ op.name = "make_full_path"
    /\ arg = <<"/", "r", "a">>
    /\ op.res = Raise(ValueError)

\* C9: in_storage is true exactly of the paths that, normalized, are the
\* root directory or lie below it.
C9_InStorageIffUnderRoot ==
    op.name = "in_storage" =>
        (op.res.val <=>
            \/ LiesUnder(cwd, root, arg)
            \/ components(realpath(cwd, arg)) = components(root))

\* C10: for a path in the store, resolving the relative form of the resolved
\* path gives the resolved path again.
C10_RoundTrip ==
    (op.name = "round_trip" /\ in_storage(cwd, root, arg))
        => op.res = make_full_path(cwd, root, arg)

\* the step is a whole call of the method, made by the single caller
StepOf(name) == nops' = nops + 1 /\ op'.name = name

\* C11: delete_folder on a path that resolves to a regular file, or to
\* nothing, raises NotADirectoryError whether recursively is set or not,
\* and the filesystem is as it was before the call.
C11_DeleteFolderKindCheck ==
    [][StepOf("delete_folder") =>
        LET folder_path == make_full_path(cwd, root, op'.args[1])
        IN  (folder_path.ok /\ ~isdir(fs, folder_path.val))
                => (op'.res = Raise(ENOTDIR) /\ fs' = fs)]_vars

\* delete_folder(recursively=True) was refused on the regular file /r/f,
\* which is still there
C11_Witness ==
    /\ op.name = "delete_folder"
    /\ op.args = <<<<"f">>, TRUE>>
    /\ op.res = Raise(ENOTDIR)
    /\ nops = 1
    /\ fs = InitFs

\* C12: delete removes the regular file its path resolves to and nothing
\* else; when the path resolves to a directory or to nothing it raises
\* FileNotFoundError and the filesystem is as it was before the call.
C12_DeleteFileOrNotFound ==
    [][StepOf("delete") =>
        LET file_path == make_full_path(cwd, root, op'.args[1])
        IN  file_path.ok =>
                IF isfile(fs, file_path.val)
                THEN /\ op'.res.ok
                     /\ fs' = [fs EXCEPT !.files =
                                  without(@, loc_of(fs, file_path.val))]
                ELSE /\ op'.res = Raise(ENOENT)
                     /\ fs' = fs]_vars

\* delete was refused on the directory /r/d, which keeps its file
C12_Witness ==
    /\ op.name = "delete"
    /\ op.args = <<<<"d">>>>
    /\ op.res = Raise(ENOENT)
    /\ nops = 1
    /\ cwd = <<"/">>
    /\ fs = InitFs

\* the immediate entries of the folder the path resolves to, named as the
\* listing names them
entries_of(relative_path, to_root) ==
    LET scan_path == make_full_path(cwd, root, relative_path).val
    IN  {IF to_root THEN join(relative_path, entry_name(l)) ELSE entry_name(l) :
            l \in {x \in fs.dirs \cup DOMAIN fs.files :
                      x # <<>> /\ parent(x) = loc_of(fs, scan_path)}}

\* C13: for every folder that can be listed, list_folder_files and
\* list_folder_dirs return disjoint sets of names whose union is the set of
\* all immediate entries of the folder.
C13_ListingsPartitionEntries ==
    (op.name \in {"list_folder_files", "list_folder_dirs"} /\ op.res.ok) =>
        LET rel == op.args[1]
            to_root == op.args[2]
            files == list_folder_files(cwd, root, fs, rel, to_root)
            dirs == list_folder_dirs(cwd, root, fs, rel, to_root)
        IN  /\ files.res.ok /\ dirs.res.ok
            /\ op.res = IF op.name = "list_folder_files" THEN files.res
                        ELSE dirs.res
            /\ files.res.val \cap dirs.res.val = {}
            /\ files.res.val \cup dirs.res.val = entries_of(rel, to_root)

\* the root, which holds the file f and the folder d, was listed: f alone is
\* among the files
C13_Witness ==
    /\ op.name = "list_folder_files"
    /\ op.args = <<<<>>, TRUE>>
    /\ op.res = Ok({<<"f">>})
    /\ list_folder_dirs(cwd, root, fs, <<>>, TRUE).res = Ok({<<"d">>})

\* C14: a save to a relative path that returns, whatever saves were made to
\* the path before, leaves load returning the payload of this last save; the
\* folder gains no entry but the file saved, and every other file and folder
\* is as before.
C14_OverwriteInPlace ==
    [][(StepOf("save") /\ op'.res.ok /\ ~isabs(op'.args[1])) =>
        LET dest == loc_of(fs', op'.res.val)
        IN  /\ load(cwd, root, fs', op'.args[1]) = Ok(op'.args[2])
            /\ fs'.dirs = fs.dirs
            /\ DOMAIN fs'.files = DOMAIN fs.files \cup {dest}
            /\ \A l \in DOMAIN fs.files \ {dest} :
                  fs'.files[l] = fs.files[l]]_vars

\* create_folder(exists_ok=False) raises FileExistsError on a directory that
\* is there, and changes nothing
CreateExisting ==
    LET full == make_full_path(cwd, root, op'.args[1])
    IN  (~op'.args[2] /\ full.ok /\ isdir(fs, full.val))
            => (op'.res = Raise(EEXIST) /\ fs' = fs)

\* C15, as claimed: the second of two create_folder(p, exists_ok=True) calls
\* in succession never fails and leaves the tree as the first call left it;
\* create_folder(p, exists_ok=False) fails when the directory is there.
C15_SecondCreateNeverFails ==
    [][StepOf("create_folder") =>
        /\ (op'.args[2] /\ op'.repeats) => (op'.res.ok /\ fs' = fs)
        /\ CreateExisting]_vars

\* C15, amended: the second of two create_folder(p, exists_ok=True) calls in
\* succession, of which the first returned, never fails and leaves the tree
\* as the first call left it; create_folder(p, exists_ok=False) fails when
\* the directory is there.
C15_SecondCreateAfterFirst ==
    [][StepOf("create_folder") =>
        /\ (op'.args[2] /\ op'.repeats /\ op.res.ok)
                => (op'.res.ok /\ fs' = fs)
        /\ CreateExisting]_vars

\* create_folder("m/n", exists_ok=True) returned a second time: the first
\* call made both folders
C15_Witness ==
    /\ op.name = "create_folder"
    /\ op.args = <<<<"m", "/", "n">>, TRUE>>
    /\ op.repeats
    /\ op.res.ok
    /\ cwd = <<"/">>
    /\ fs.dirs = InitFs.dirs \cup {<<N_r, <<"m">>>>, <<N_r, <<"m">>, <<"n">>>>}

\* C16: validate_file_name_component raises on every name that holds a dot,
\* and returns on every name without a dot that the universal rules of the
\* library pass.
C16_DotsRejected ==
    op.name = "validate_file_name_component" =>
        /\ has_dot(arg) => ~op.res.ok
        /\ (~has_dot(arg) /\ validate_filename(arg).ok) => op.res.ok

\* the name a.r, which the universal rules pass, was rejected for its dot
C16_Witness ==
    /\ op.name = "validate_file_name_component"
    /\ arg = <<"a", ".", "r">>
    /\ validate_filename(arg).ok
    /\ op.res = Raise(InvalidCharError)

\* C17: make_full_path of a relative path is the root joined with the path,
\* whatever the working directory of the process.  The two paths are
\* compared normalized, so that a spelling such as a/ for a does not count
\* as a difference.
C17_RelativeJoinsRoot ==
    (op.name = "make_full_path" /\ ~isabs(arg)) =>
        /\ op.res.ok
        /\ normpath(op.res.val) = normpath(join(root, arg))

C19_OpenTempMode ==
    [][StepOf("open_temp") =>
        LET mode == op'.args[2]
            file_type == op'.args[3]
            self_file_type == op'.args[4]
        IN  /\ op'.res.ok
            /\ \E n \in TmpNames :
                  /\ op'.res.val.name = tmp_path_of(root, n)
                  /\ ~isfile(fs, op'.res.val.name)
                  /\ isfile(fs', op'.res.val.name)
            /\ op'.res.val.mode =
                  mode \o (IF file_type = PyNone THEN self_file_type
                           ELSE file_type)]_vars

\* the place of event e in the history
place(e) == CHOOSE k \in 1..Len(events) : events[k] = e

\* the pool of the call was started before its runnable was created
started_early(call) ==
    place(<<"pool", call.pool>>) < place(<<"runnable", call.rid>>)

\* C20: _run of a runnable on a pool that was started before the runnable
\* was created raises KeyError; on a pool started after the runnable was
\* created it returns one result per task, in task order, each with the
\* uniq_id of the runnable registered under its id.
C20_PoolStartOrder ==
    \A n \in 1..Len(returned) :
        IF started_early(returned[n])
        THEN returned[n].rv = Raise(KeyError)
        ELSE /\ returned[n].rv.ok
             /\ Len(returned[n].rv.val) = NTasks
             /\ \A k \in 1..NTasks :
                   /\ returned[n].rv.val[k][1] = k - 1
                   /\ returned[n].rv.val[k][2] = RUNNING[returned[n].rid]

\* one runnable was run on a pool started before it and on a pool started
\* after it, and in the second run the last task ended first
C20_Witness ==
    /\ Len(returned) = 2
    /\ returned[1].rid = returned[2].rid
    /\ started_early(returned[1])
    /\ ~started_early(returned[2])
    /\ returned[2].rv.val[1][3] # returned[2].rv.val[NTasks][3]

=============================================================================
